---- MODULE Spec2Model ----
(***************************************************************************)
(* The pet pallet of SuperPetChain (pallets/pet/src/lib.rs): the storage   *)
(* maps PetsInfo, LastFeedTime and LastSleepTime, the four dispatchables   *)
(* mint, transfer, feed and sleep, and the events they deposit.            *)
(*                                                                         *)
(* A StorageMap is a partial function: its DOMAIN is the set of keys that  *)
(* are present in storage.  An Option is a sequence of length 0 (None) or  *)
(* 1 (Some).                                                               *)
(*                                                                         *)
(* The client (SuperPetGame/src/menu.rs): the MintPet arm of menu_action   *)
(* and the async fn mint, which submits one mint extrinsic for Alice and   *)
(* consumes the status stream of the submission.  The transport and the    *)
(* node are the environment: they choose the items of the stream and the   *)
(* moment a submitted extrinsic is dispatched.                             *)
(***************************************************************************)
EXTENDS Integers, Sequences, FiniteSets, TLC

\* ---------------------------------------------------------------- bounds
\* accounts that sign extrinsics
NumAccounts == 3
\* pet ids are 0 .. MaxPetId
MaxPetId    == 1
\* T::StringLimit, the longest name
StringLimit == 1
\* species variants the calls draw from
NumSpecies  == 1
\* the last block height the clock reaches
MaxHeight   == 1
\* the longest event log: a call that would deposit one more is not taken
MaxEvents   == 3
\* the accounts and the longest event log of the feed and sleep frame runs
NumFrameAccounts == 2
MaxFrameEvents   == 6
\* the most status items one mint call consumes from its stream
MaxStatuses == 3
\* the most MintPet clicks
MaxCalls    == 2

\* ---------------------------------------------------------------- domains
Accounts == 1 .. NumAccounts
PetIds   == 0 .. MaxPetId
Heights  == 0 .. MaxHeight

\* enum Species, in declaration order; calls draw from the first NumSpecies
SpeciesVariants == <<"Turtle", "Snake", "Rabbit">>
Species == {SpeciesVariants[i] : i \in 1 .. NumSpecies}

\* BoundedVec<u8, StringLimit>: byte strings of at most StringLimit bytes,
\* here over the one byte "a"
Names == UNION {[1 .. n -> {97}] : n \in 0 .. StringLimit}

\* struct PetInfo
PetInfo == [name : Names, species : Species]

\* OriginFor<T>: a signed origin carries the account, Root carries none
Signed(who) == <<"Signed", who>>
Root        == <<"Root">>
Origins     == {Signed(a) : a \in Accounts} \cup {Root}

\* enum Error, and the BadOrigin of ensure_signed
AccountAlreadyHasPet == "AccountAlreadyHasPet"
AccountHasNoPet      == "AccountHasNoPet"
BadOrigin            == "BadOrigin"
Ok                   == "Ok"

\* enum Event
PetMinted(owner, id)        == <<"PetMinted", owner, id>>
PetTransfered(from, to, id) == <<"PetTransfered", from, to, id>>
PetFeeded(owner, id)        == <<"PetFeeded", owner, id>>
PetSleeped(owner, id)       == <<"PetSleeped", owner, id>>

VARIABLES
    PetsInfo,       \* StorageMap AccountId -> (PetId, PetInfo)
    LastFeedTime,   \* StorageMap PetId -> BlockNumber, ValueQuery
    LastSleepTime,  \* StorageMap PetId -> BlockNumber, OptionQuery
    events,         \* the events deposited so far, in deposit order
    block_number,   \* frame_system::Pallet::<T>::block_number()
    lastCall,       \* the last extrinsic dispatched and its DispatchResult
    game_state,     \* State<GameState>
    menu_state,     \* State<MenuState>
    pet_owned,      \* State<PetOwned>
    pc,             \* where the MintPet arm of menu_action and its mint call stand
    calls,          \* MintPet clicks so far
    args,           \* (petid, species, name) of the current mint call, an Option
    submitted,      \* extrinsics the current mint call handed to the transport
    seen,           \* status items the current mint call took from mint_pet
    transfer_event, \* the local transfer_event of the last Finalized arm
    result,         \* the Result the current mint call returned, an Option
    pool            \* extrinsics the transport accepted, not yet dispatched

\* the pallet's state and the client's
ledger == <<PetsInfo, LastFeedTime, LastSleepTime, events, block_number, lastCall>>
client == <<game_state, menu_state, pet_owned, pc, calls, args, submitted, seen,
            transfer_event, result, pool>>

vars == <<PetsInfo, LastFeedTime, LastSleepTime, events, block_number, lastCall,
          game_state, menu_state, pet_owned, pc, calls, args, submitted, seen,
          transfer_event, result, pool>>

\* ---------------------------------------------------------------- storage API
\* StorageMap::contains_key
contains_key(map, k) == k \in DOMAIN map

\* StorageMap::insert
insert(map, k, v) == [x \in DOMAIN map \cup {k} |-> IF x = k THEN v ELSE map[x]]

\* StorageMap::remove
remove(map, k) == [x \in DOMAIN map \ {k} |-> map[x]]

\* StorageMap::get with OptionQuery
get(map, k) == IF k \in DOMAIN map THEN <<map[k]>> ELSE <<>>

\* LastFeedTime::get: ValueQuery returns BlockNumber::default() for a missing key
feedTimeOf(id) == IF id \in DOMAIN LastFeedTime THEN LastFeedTime[id] ELSE 0

\* LastSleepTime declared with ValueQuery, like LastFeedTime
sleepTimeOf_ValueQuery(id) ==
    IF id \in DOMAIN LastSleepTime THEN <<LastSleepTime[id]>> ELSE <<0>>

\* LastSleepTime::get: OptionQuery
sleepTimeOf(id) == get(LastSleepTime, id)

\* the record of a dispatched call: the dispatchable, its origin, the receiver
\* argument when it has one (an Option) and the DispatchResult it returned
Call(name, origin, to, res) ==
    [call |-> name, origin |-> origin, to |-> to, result |-> res]

\* before the first extrinsic
NoCall == Call("none", Root, <<>>, Ok)

\* ---------------------------------------------------------------- Init
Init ==
    /\ PetsInfo = <<>>
    /\ LastFeedTime = <<>>
    /\ LastSleepTime = <<>>
    /\ events = <<>>
    /\ block_number = 0
    /\ lastCall = NoCall
    /\ game_state = "Splash"
    /\ menu_state = "Disabled"
    /\ pet_owned = "Disable"
    /\ pc = "menu"
    /\ calls = 0
    /\ args = <<>>
    /\ submitted = <<>>
    /\ seen = <<>>
    /\ transfer_event = <<>>
    /\ result = <<>>
    /\ pool = <<>>

\* ---------------------------------------------------------------- dispatchables
Fail(name, origin, to, err) ==
    /\ lastCall' = Call(name, origin, to, err)
    /\ UNCHANGED <<PetsInfo, LastFeedTime, LastSleepTime, events, block_number>>

\* mint without the ensure! on the sender's key: a second mint overwrites
mint_NoOwnerCheck(origin, name, species, id) ==
    IF origin[1] # "Signed"
    THEN Fail("mint", origin, <<>>, BadOrigin)
    ELSE LET sender == origin[2]
             pet    == [name |-> name, species |-> species] IN
         /\ PetsInfo' = insert(PetsInfo, sender, <<id, pet>>)
         /\ events' = Append(events, PetMinted(sender, id))
         /\ lastCall' = Call("mint", origin, <<>>, Ok)
         /\ UNCHANGED <<LastFeedTime, LastSleepTime, block_number>>

\* mint that stores PetInfo::default() instead of the arguments
mint_DefaultInfo(origin, name, species, id) ==
    IF origin[1] # "Signed"
    THEN Fail("mint", origin, <<>>, BadOrigin)
    ELSE LET sender == origin[2] IN
         IF contains_key(PetsInfo, sender)
         THEN Fail("mint", origin, <<>>, AccountAlreadyHasPet)
         ELSE LET pet == [name |-> <<>>, species |-> "Turtle"] IN
              /\ PetsInfo' = insert(PetsInfo, sender, <<id, pet>>)
              /\ events' = Append(events, PetMinted(sender, id))
              /\ lastCall' = Call("mint", origin, <<>>, Ok)
              /\ UNCHANGED <<LastFeedTime, LastSleepTime, block_number>>

\* mint that also rejects an id some account's record already carries
mint_UniqueId(origin, name, species, id) ==
    IF origin[1] # "Signed"
    THEN Fail("mint", origin, <<>>, BadOrigin)
    ELSE LET sender == origin[2] IN
         IF \/ contains_key(PetsInfo, sender)
            \/ \E a \in DOMAIN PetsInfo : PetsInfo[a][1] = id
         THEN Fail("mint", origin, <<>>, AccountAlreadyHasPet)
         ELSE LET pet == [name |-> name, species |-> species] IN
              /\ PetsInfo' = insert(PetsInfo, sender, <<id, pet>>)
              /\ events' = Append(events, PetMinted(sender, id))
              /\ lastCall' = Call("mint", origin, <<>>, Ok)
              /\ UNCHANGED <<LastFeedTime, LastSleepTime, block_number>>

\* pub fn mint(origin, name, species, id)
mint(origin, name, species, id) ==
    IF origin[1] # "Signed"
    THEN Fail("mint", origin, <<>>, BadOrigin)
    ELSE LET sender == origin[2] IN
         IF contains_key(PetsInfo, sender)
         THEN Fail("mint", origin, <<>>, AccountAlreadyHasPet)
         ELSE LET pet == [name |-> name, species |-> species] IN
              /\ PetsInfo' = insert(PetsInfo, sender, <<id, pet>>)
              /\ events' = Append(events, PetMinted(sender, id))
              /\ lastCall' = Call("mint", origin, <<>>, Ok)
              /\ UNCHANGED <<LastFeedTime, LastSleepTime, block_number>>

\* transfer that inserts under the receiver and forgets to remove the sender
transfer_NoRemove(origin, receiver) ==
    LET to == <<receiver>> IN
    IF origin[1] # "Signed"
    THEN Fail("transfer", origin, to, BadOrigin)
    ELSE LET sender == origin[2]
             found  == get(PetsInfo, sender) IN
         IF found = <<>>
         THEN Fail("transfer", origin, to, AccountHasNoPet)
         ELSE IF contains_key(PetsInfo, receiver)
         THEN Fail("transfer", origin, to, AccountAlreadyHasPet)
         ELSE LET id  == found[1][1]
                  pet == found[1][2] IN
              /\ PetsInfo' = insert(PetsInfo, receiver, <<id, pet>>)
              /\ events' = Append(events, PetTransfered(sender, receiver, id))
              /\ lastCall' = Call("transfer", origin, to, Ok)
              /\ UNCHANGED <<LastFeedTime, LastSleepTime, block_number>>

\* transfer without the ensure! on the receiver's key
transfer_NoReceiverCheck(origin, receiver) ==
    LET to == <<receiver>> IN
    IF origin[1] # "Signed"
    THEN Fail("transfer", origin, to, BadOrigin)
    ELSE LET sender == origin[2]
             found  == get(PetsInfo, sender) IN
         IF found = <<>>
         THEN Fail("transfer", origin, to, AccountHasNoPet)
         ELSE LET id  == found[1][1]
                  pet == found[1][2] IN
              /\ PetsInfo' = remove(insert(PetsInfo, receiver, <<id, pet>>), sender)
              /\ events' = Append(events, PetTransfered(sender, receiver, id))
              /\ lastCall' = Call("transfer", origin, to, Ok)
              /\ UNCHANGED <<LastFeedTime, LastSleepTime, block_number>>

\* transfer that checks the receiver's key before it looks up the sender's
transfer_ReceiverFirst(origin, receiver) ==
    LET to == <<receiver>> IN
    IF origin[1] # "Signed"
    THEN Fail("transfer", origin, to, BadOrigin)
    ELSE LET sender == origin[2]
             found  == get(PetsInfo, sender) IN
         IF contains_key(PetsInfo, receiver)
         THEN Fail("transfer", origin, to, AccountAlreadyHasPet)
         ELSE IF found = <<>>
         THEN Fail("transfer", origin, to, AccountHasNoPet)
         ELSE LET id  == found[1][1]
                  pet == found[1][2] IN
              /\ PetsInfo' = remove(insert(PetsInfo, receiver, <<id, pet>>), sender)
              /\ events' = Append(events, PetTransfered(sender, receiver, id))
              /\ lastCall' = Call("transfer", origin, to, Ok)
              /\ UNCHANGED <<LastFeedTime, LastSleepTime, block_number>>

\* transfer that stores PetInfo::default() with the id under the receiver
transfer_DefaultInfo(origin, receiver) ==
    LET to == <<receiver>> IN
    IF origin[1] # "Signed"
    THEN Fail("transfer", origin, to, BadOrigin)
    ELSE LET sender == origin[2]
             found  == get(PetsInfo, sender) IN
         IF found = <<>>
         THEN Fail("transfer", origin, to, AccountHasNoPet)
         ELSE IF contains_key(PetsInfo, receiver)
         THEN Fail("transfer", origin, to, AccountAlreadyHasPet)
         ELSE LET id  == found[1][1]
                  pet == [name |-> <<>>, species |-> "Turtle"] IN
              /\ PetsInfo' = remove(insert(PetsInfo, receiver, <<id, pet>>), sender)
              /\ events' = Append(events, PetTransfered(sender, receiver, id))
              /\ lastCall' = Call("transfer", origin, to, Ok)
              /\ UNCHANGED <<LastFeedTime, LastSleepTime, block_number>>

\* transfer that resets the moved pet's activity timestamps
transfer_ClearsTimes(origin, receiver) ==
    LET to == <<receiver>> IN
    IF origin[1] # "Signed"
    THEN Fail("transfer", origin, to, BadOrigin)
    ELSE LET sender == origin[2]
             found  == get(PetsInfo, sender) IN
         IF found = <<>>
         THEN Fail("transfer", origin, to, AccountHasNoPet)
         ELSE IF contains_key(PetsInfo, receiver)
         THEN Fail("transfer", origin, to, AccountAlreadyHasPet)
         ELSE LET id  == found[1][1]
                  pet == found[1][2] IN
              /\ PetsInfo' = remove(insert(PetsInfo, receiver, <<id, pet>>), sender)
              /\ LastFeedTime' = remove(LastFeedTime, id)
              /\ LastSleepTime' = remove(LastSleepTime, id)
              /\ events' = Append(events, PetTransfered(sender, receiver, id))
              /\ lastCall' = Call("transfer", origin, to, Ok)
              /\ UNCHANGED block_number

\* transfer that takes the sender's record out before it checks the receiver
transfer_RemoveBeforeCheck(origin, receiver) ==
    LET to == <<receiver>> IN
    IF origin[1] # "Signed"
    THEN Fail("transfer", origin, to, BadOrigin)
    ELSE LET sender == origin[2]
             found  == get(PetsInfo, sender) IN
         IF found = <<>>
         THEN Fail("transfer", origin, to, AccountHasNoPet)
         ELSE IF contains_key(PetsInfo, receiver)
         THEN /\ PetsInfo' = remove(PetsInfo, sender)
              /\ lastCall' = Call("transfer", origin, to, AccountAlreadyHasPet)
              /\ UNCHANGED <<LastFeedTime, LastSleepTime, events, block_number>>
         ELSE LET id  == found[1][1]
                  pet == found[1][2] IN
              /\ PetsInfo' = remove(insert(PetsInfo, receiver, <<id, pet>>), sender)
              /\ events' = Append(events, PetTransfered(sender, receiver, id))
              /\ lastCall' = Call("transfer", origin, to, Ok)
              /\ UNCHANGED <<LastFeedTime, LastSleepTime, block_number>>

\* pub fn transfer(origin, receiver)
transfer(origin, receiver) ==
    LET to == <<receiver>> IN
    IF origin[1] # "Signed"
    THEN Fail("transfer", origin, to, BadOrigin)
    ELSE LET sender == origin[2]
             found  == get(PetsInfo, sender) IN
         IF found = <<>>
         THEN Fail("transfer", origin, to, AccountHasNoPet)
         ELSE IF contains_key(PetsInfo, receiver)
         THEN Fail("transfer", origin, to, AccountAlreadyHasPet)
         ELSE LET id  == found[1][1]
                  pet == found[1][2] IN
              /\ PetsInfo' = remove(insert(PetsInfo, receiver, <<id, pet>>), sender)
              /\ events' = Append(events, PetTransfered(sender, receiver, id))
              /\ lastCall' = Call("transfer", origin, to, Ok)
              /\ UNCHANGED <<LastFeedTime, LastSleepTime, block_number>>

\* feed that falls back to the default (id 0) record when the sender has none
feed_DefaultOnMissing(origin) ==
    IF origin[1] # "Signed"
    THEN Fail("feed", origin, <<>>, BadOrigin)
    ELSE LET sender == origin[2]
             found  == get(PetsInfo, sender)
             id     == IF found = <<>> THEN 0 ELSE found[1][1] IN
         /\ LastFeedTime' = insert(LastFeedTime, id, block_number)
         /\ events' = Append(events, PetFeeded(sender, id))
         /\ lastCall' = Call("feed", origin, <<>>, Ok)
         /\ UNCHANGED <<PetsInfo, LastSleepTime, block_number>>

\* feed that keeps the first timestamp: it writes only when the key is absent
feed_KeepFirst(origin) ==
    IF origin[1] # "Signed"
    THEN Fail("feed", origin, <<>>, BadOrigin)
    ELSE LET sender == origin[2]
             found  == get(PetsInfo, sender) IN
         IF found = <<>>
         THEN Fail("feed", origin, <<>>, AccountHasNoPet)
         ELSE LET id == found[1][1] IN
              /\ LastFeedTime' = IF contains_key(LastFeedTime, id)
                                 THEN LastFeedTime
                                 ELSE insert(LastFeedTime, id, block_number)
              /\ events' = Append(events, PetFeeded(sender, id))
              /\ lastCall' = Call("feed", origin, <<>>, Ok)
              /\ UNCHANGED <<PetsInfo, LastSleepTime, block_number>>

\* feed that puts its event at the head of the log
feed_PrependsEvent(origin) ==
    IF origin[1] # "Signed"
    THEN Fail("feed", origin, <<>>, BadOrigin)
    ELSE LET sender == origin[2]
             found  == get(PetsInfo, sender) IN
         IF found = <<>>
         THEN Fail("feed", origin, <<>>, AccountHasNoPet)
         ELSE LET id == found[1][1] IN
              /\ LastFeedTime' = insert(LastFeedTime, id, block_number)
              /\ events' = <<PetFeeded(sender, id)>> \o events
              /\ lastCall' = Call("feed", origin, <<>>, Ok)
              /\ UNCHANGED <<PetsInfo, LastSleepTime, block_number>>

\* feed that rewrites the whole LastFeedTime map with the one entry of the
\* pet it feeds
feed_WipesOthers(origin) ==
    IF origin[1] # "Signed"
    THEN Fail("feed", origin, <<>>, BadOrigin)
    ELSE LET sender == origin[2]
             found  == get(PetsInfo, sender) IN
         IF found = <<>>
         THEN Fail("feed", origin, <<>>, AccountHasNoPet)
         ELSE LET id == found[1][1] IN
              /\ LastFeedTime' = insert(<<>>, id, block_number)
              /\ events' = Append(events, PetFeeded(sender, id))
              /\ lastCall' = Call("feed", origin, <<>>, Ok)
              /\ UNCHANGED <<PetsInfo, LastSleepTime, block_number>>

\* pub fn feed(origin)
feed(origin) ==
    IF origin[1] # "Signed"
    THEN Fail("feed", origin, <<>>, BadOrigin)
    ELSE LET sender == origin[2]
             found  == get(PetsInfo, sender) IN
         IF found = <<>>
         THEN Fail("feed", origin, <<>>, AccountHasNoPet)
         ELSE LET id == found[1][1] IN
              /\ LastFeedTime' = insert(LastFeedTime, id, block_number)
              /\ events' = Append(events, PetFeeded(sender, id))
              /\ lastCall' = Call("feed", origin, <<>>, Ok)
              /\ UNCHANGED <<PetsInfo, LastSleepTime, block_number>>

\* sleep that writes its timestamp into LastFeedTime
sleep_WritesFeedTime(origin) ==
    IF origin[1] # "Signed"
    THEN Fail("sleep", origin, <<>>, BadOrigin)
    ELSE LET sender == origin[2]
             found  == get(PetsInfo, sender) IN
         IF found = <<>>
         THEN Fail("sleep", origin, <<>>, AccountHasNoPet)
         ELSE LET id == found[1][1] IN
              /\ LastFeedTime' = insert(LastFeedTime, id, block_number)
              /\ events' = Append(events, PetSleeped(sender, id))
              /\ lastCall' = Call("sleep", origin, <<>>, Ok)
              /\ UNCHANGED <<PetsInfo, LastSleepTime, block_number>>

\* sleep that writes the timestamp and forgets to deposit its event
sleep_NoEvent(origin) ==
    IF origin[1] # "Signed"
    THEN Fail("sleep", origin, <<>>, BadOrigin)
    ELSE LET sender == origin[2]
             found  == get(PetsInfo, sender) IN
         IF found = <<>>
         THEN Fail("sleep", origin, <<>>, AccountHasNoPet)
         ELSE LET id == found[1][1] IN
              /\ LastSleepTime' = insert(LastSleepTime, id, block_number)
              /\ lastCall' = Call("sleep", origin, <<>>, Ok)
              /\ UNCHANGED <<PetsInfo, LastFeedTime, events, block_number>>

\* sleep that keeps the first timestamp: it writes only when the key is absent
sleep_KeepFirst(origin) ==
    IF origin[1] # "Signed"
    THEN Fail("sleep", origin, <<>>, BadOrigin)
    ELSE LET sender == origin[2]
             found  == get(PetsInfo, sender) IN
         IF found = <<>>
         THEN Fail("sleep", origin, <<>>, AccountHasNoPet)
         ELSE LET id == found[1][1] IN
              /\ LastSleepTime' = IF contains_key(LastSleepTime, id)
                                  THEN LastSleepTime
                                  ELSE insert(LastSleepTime, id, block_number)
              /\ events' = Append(events, PetSleeped(sender, id))
              /\ lastCall' = Call("sleep", origin, <<>>, Ok)
              /\ UNCHANGED <<PetsInfo, LastFeedTime, block_number>>

\* sleep that stores the height of the next block instead of the current one
sleep_NextHeight(origin) ==
    IF origin[1] # "Signed"
    THEN Fail("sleep", origin, <<>>, BadOrigin)
    ELSE LET sender == origin[2]
             found  == get(PetsInfo, sender) IN
         IF found = <<>>
         THEN Fail("sleep", origin, <<>>, AccountHasNoPet)
         ELSE LET id == found[1][1] IN
              /\ LastSleepTime' = insert(LastSleepTime, id, block_number + 1)
              /\ events' = Append(events, PetSleeped(sender, id))
              /\ lastCall' = Call("sleep", origin, <<>>, Ok)
              /\ UNCHANGED <<PetsInfo, LastFeedTime, block_number>>

\* pub fn sleep(origin)
sleep(origin) ==
    IF origin[1] # "Signed"
    THEN Fail("sleep", origin, <<>>, BadOrigin)
    ELSE LET sender == origin[2]
             found  == get(PetsInfo, sender) IN
         IF found = <<>>
         THEN Fail("sleep", origin, <<>>, AccountHasNoPet)
         ELSE LET id == found[1][1] IN
              /\ LastSleepTime' = insert(LastSleepTime, id, block_number)
              /\ events' = Append(events, PetSleeped(sender, id))
              /\ lastCall' = Call("sleep", origin, <<>>, Ok)
              /\ UNCHANGED <<PetsInfo, LastFeedTime, block_number>>

\* the clock: the next block starts
NextBlock ==
    /\ block_number < MaxHeight
    /\ block_number' = block_number + 1
    /\ UNCHANGED <<PetsInfo, LastFeedTime, LastSleepTime, events, lastCall>>
    /\ UNCHANGED client

\* an extrinsic signed by any origin is dispatched while the log has room for
\* the event it deposits; the client is not involved
Mint ==
    /\ \E o \in Origins, n \in Names, sp \in Species, id \in PetIds : mint(o, n, sp, id)
    /\ Len(events') <= MaxEvents
    /\ UNCHANGED client
Transfer ==
    /\ \E o \in Origins, r \in Accounts : transfer(o, r)
    /\ Len(events') <= MaxEvents
    /\ UNCHANGED client
Feed ==
    /\ \E o \in Origins : feed(o)
    /\ Len(events') <= MaxEvents
    /\ UNCHANGED client
Sleep ==
    /\ \E o \in Origins : sleep(o)
    /\ Len(events') <= MaxEvents
    /\ UNCHANGED client

Next == Mint \/ Transfer \/ Feed \/ Sleep \/ NextBlock

Spec == Init /\ [][Next]_vars

\* the ledger driven by the first NumFrameAccounts accounts alone, every pet
\* named by the empty name, with a log long enough for each of two pets to be
\* fed and put to sleep
FrameOrigins == {Signed(a) : a \in 1 .. NumFrameAccounts}

MintFrame ==
    /\ \E o \in FrameOrigins, sp \in Species, id \in PetIds : mint(o, <<>>, sp, id)
    /\ Len(events') <= MaxFrameEvents
    /\ UNCHANGED client
TransferFrame ==
    /\ \E o \in FrameOrigins, r \in 1 .. NumFrameAccounts : transfer(o, r)
    /\ Len(events') <= MaxFrameEvents
    /\ UNCHANGED client
FeedFrame ==
    /\ \E o \in FrameOrigins : feed(o)
    /\ Len(events') <= MaxFrameEvents
    /\ UNCHANGED client
SleepFrame ==
    /\ \E o \in FrameOrigins : sleep(o)
    /\ Len(events') <= MaxFrameEvents
    /\ UNCHANGED client

NextFrame == MintFrame \/ TransferFrame \/ FeedFrame \/ SleepFrame \/ NextBlock

SpecFrame == Init /\ [][NextFrame]_vars

\* ---------------------------------------------------------------- client
\* AccountKeyring::Alice, the signer of every extrinsic the client submits
Alice == 1

\* the event lists of the finalized blocks the transport may report
BlockEvents ==
    { <<>>,
      <<PetMinted(Alice, 1)>>,
      <<PetTransfered(Alice, 2, 1)>>,
      <<PetFeeded(2, 0), PetMinted(2, 0)>> }

\* the items mint_pet.next() yields.  InBlock and Finalized carry a block; of
\* the InBlock one the code reads nothing.  A Finalized item names a finalized
\* block: what fetch_events / find_first answer for it ("ok": neither fails)
\* and the events it holds, which the call reads in a later step.  Error is
\* the Err item of the stream.
TxReady     == <<"Ready">>
TxInBlock   == <<"InBlock">>
TxDropped   == <<"Dropped">>
TxInvalid   == <<"Invalid">>
TxError     == <<"Error">>
TxFinalized(io, evs) == <<"Finalized", io, evs>>

StatusItems ==
    {TxReady, TxInBlock, TxDropped, TxInvalid, TxError}
       \cup {TxFinalized("ok", evs) : evs \in BlockEvents}
       \cup {TxFinalized(io, <<>>) : io \in {"fetch_events", "find_first"}}

\* Result<(), Box<dyn Error>> of the client's mint, as an Option
ResOk       == <<"Ok">>
ResErr(why) == <<"Err", why>>

\* events.find_first::<E>(): the first event of the variant, as an Option
RECURSIVE find_first(_, _)
find_first(evs, variant) ==
    IF evs = <<>> THEN <<>>
    ELSE IF Head(evs)[1] = variant THEN <<Head(evs)>>
    ELSE find_first(Tail(evs), variant)

\* the extrinsic the client builds: pet_module().mint(petname, species, petid)
\* with the locals petid = 1 and species = Turtle that shadow the parameters
MintExtrinsic(a) == [name |-> a.name, species |-> "Turtle", id |-> 1]

\* OnEnter(GameState::Menu): the splash screen or the play menu's BackToMain
\* leads to the menu, and menu_setup shows the main menu
EnterMenu ==
    /\ pc = "menu"
    /\ game_state \in {"Splash", "Game"}
    /\ game_state' = "Menu"
    /\ menu_state' = "Main"
    /\ UNCHANGED <<pet_owned, pc, calls, args, submitted, seen, transfer_event,
                   result, pool>>
    /\ UNCHANGED ledger

\* MenuButtonAction::NewGame
NewGame ==
    /\ pc = "menu"
    /\ game_state = "Menu"
    /\ menu_state = "Main"
    /\ menu_state' = "NewGame"
    /\ UNCHANGED <<game_state, pet_owned, pc, calls, args, submitted, seen,
                   transfer_event, result, pool>>
    /\ UNCHANGED ledger

\* MenuButtonAction::ContinueGame
ContinueGame ==
    /\ pc = "menu"
    /\ game_state = "Menu"
    /\ menu_state = "Main"
    /\ game_state' = "Game"
    /\ menu_state' = "Disabled"
    /\ UNCHANGED <<pet_owned, pc, calls, args, submitted, seen, transfer_event,
                   result, pool>>
    /\ UNCHANGED ledger

\* MenuButtonAction::Transaction, the main screen's button to the transaction
\* screen
Transaction ==
    /\ pc = "menu"
    /\ game_state = "Menu"
    /\ menu_state = "Main"
    /\ menu_state' = "Transaction"
    /\ UNCHANGED <<game_state, pet_owned, pc, calls, args, submitted, seen,
                   transfer_event, result, pool>>
    /\ UNCHANGED ledger

\* MenuButtonAction::BackToMainMenu, a button of the new game screen and of
\* the transaction screen
BackToMainMenu ==
    /\ pc = "menu"
    /\ game_state = "Menu"
    /\ menu_state \in {"NewGame", "Transaction"}
    /\ menu_state' = "Main"
    /\ UNCHANGED <<game_state, pet_owned, pc, calls, args, submitted, seen,
                   transfer_event, result, pool>>
    /\ UNCHANGED ledger

\* MenuButtonAction::MintPet(name, species): block_on(mint(1, Rabbit, name))
\* starts; the locals of the call are fresh
MintPet(name) ==
    /\ pc = "menu"
    /\ game_state = "Menu"
    /\ menu_state = "NewGame"
    /\ calls < MaxCalls
    /\ calls' = calls + 1
    /\ args' = <<[petid |-> 1, species |-> "Rabbit", name |-> name]>>
    /\ submitted' = <<>>
    /\ seen' = <<>>
    /\ transfer_event' = <<>>
    /\ result' = <<>>
    /\ pc' = "connect"
    /\ UNCHANGED <<game_state, menu_state, pet_owned, pool>>
    /\ UNCHANGED ledger

\* the mint call returns r to menu_action
Return(r) ==
    /\ result' = r
    /\ pc' = "returned"

\* OnlineClient::<PolkadotConfig>::new().await?
mint_connect(ok) ==
    /\ pc = "connect"
    /\ IF ok THEN pc' = "submit" /\ UNCHANGED result
             ELSE Return(ResErr("connect"))
    /\ UNCHANGED <<game_state, menu_state, pet_owned, calls, args, submitted,
                   seen, transfer_event, pool>>
    /\ UNCHANGED ledger

\* sign_and_submit_then_watch_default(&balance_transfer_tx, &from).await?
mint_submit(ok) ==
    /\ pc = "submit"
    /\ IF ok
       THEN /\ submitted' = Append(submitted, MintExtrinsic(args[1]))
            /\ pool' = Append(pool, MintExtrinsic(args[1]))
            /\ pc' = "watch"
            /\ UNCHANGED result
       ELSE /\ Return(ResErr("submit"))
            /\ UNCHANGED <<submitted, pool>>
    /\ UNCHANGED <<game_state, menu_state, pet_owned, calls, args, seen,
                   transfer_event>>
    /\ UNCHANGED ledger

\* the watch loop submitting the extrinsic again when it is told Dropped
mint_next_Resubmit(item) ==
    /\ pc = "watch"
    /\ Len(seen) < MaxStatuses
    /\ seen' = Append(seen, item)
    /\ IF item = TxError
       THEN Return(ResErr("status")) /\ UNCHANGED <<submitted, pool>>
       ELSE IF item[1] = "Finalized"
       THEN pc' = "fetch_events" /\ UNCHANGED <<result, submitted, pool>>
       ELSE IF item = TxDropped
       THEN /\ submitted' = Append(submitted, MintExtrinsic(args[1]))
            /\ pool' = Append(pool, MintExtrinsic(args[1]))
            /\ UNCHANGED <<pc, result>>
       ELSE UNCHANGED <<pc, result, submitted, pool>>
    /\ UNCHANGED <<game_state, menu_state, pet_owned, calls, args, transfer_event>>
    /\ UNCHANGED ledger

\* the watch loop undoing the mint in the store when it is told Dropped
mint_next_Rollback(item) ==
    /\ pc = "watch"
    /\ Len(seen) < MaxStatuses
    /\ seen' = Append(seen, item)
    /\ IF item = TxError
       THEN Return(ResErr("status")) /\ UNCHANGED PetsInfo
       ELSE IF item[1] = "Finalized"
       THEN pc' = "fetch_events" /\ UNCHANGED <<result, PetsInfo>>
       ELSE IF item = TxDropped
       THEN /\ PetsInfo' = remove(PetsInfo, Alice)
            /\ UNCHANGED <<pc, result>>
       ELSE UNCHANGED <<pc, result, PetsInfo>>
    /\ UNCHANGED <<game_state, menu_state, pet_owned, calls, args, submitted,
                   transfer_event, pool>>
    /\ UNCHANGED <<LastFeedTime, LastSleepTime, events, block_number, lastCall>>

\* one turn of `while let Some(status) = mint_pet.next().await` up to its next
\* await: the item is taken; `status?` returns the Err item; the Finalized arm
\* prints its line and goes on to fetch the block's events; Ready and InBlock
\* do nothing and any other status is printed, and these go back to the head
\* of the loop
mint_next(item) ==
    /\ pc = "watch"
    /\ Len(seen) < MaxStatuses
    /\ seen' = Append(seen, item)
    /\ IF item = TxError
       THEN Return(ResErr("status"))
       ELSE IF item[1] = "Finalized"
       THEN pc' = "fetch_events" /\ UNCHANGED result
       ELSE UNCHANGED <<pc, result>>
    /\ UNCHANGED <<game_state, menu_state, pet_owned, calls, args, submitted,
                   transfer_event, pool>>
    /\ UNCHANGED ledger

\* the rest of the Finalized arm looking for PetTransfered, the event of the
\* example the local transfer_event is named after
mint_fetch_events_FindsTransfer ==
    /\ pc = "fetch_events"
    /\ LET in_block == seen[Len(seen)]
       IN IF in_block[2] # "ok"
          THEN Return(ResErr(in_block[2])) /\ UNCHANGED transfer_event
          ELSE /\ transfer_event' = find_first(in_block[3], "PetTransfered")
               /\ pc' = "watch"
               /\ UNCHANGED result
    /\ UNCHANGED <<game_state, menu_state, pet_owned, calls, args, submitted,
                   seen, pool>>
    /\ UNCHANGED ledger

\* the rest of the Finalized arm, after `in_block.fetch_events().await`: the
\* events of the block the item named are fetched and searched for PetMinted,
\* the call returning on either failure; one of two lines is printed and the
\* loop is back at its head
mint_fetch_events ==
    /\ pc = "fetch_events"
    /\ LET in_block == seen[Len(seen)]
       IN IF in_block[2] # "ok"
          THEN Return(ResErr(in_block[2])) /\ UNCHANGED transfer_event
          ELSE /\ transfer_event' = find_first(in_block[3], "PetMinted")
               /\ pc' = "watch"
               /\ UNCHANGED result
    /\ UNCHANGED <<game_state, menu_state, pet_owned, calls, args, submitted,
                   seen, pool>>
    /\ UNCHANGED ledger

\* mint_pet.next() yields None: the loop ends and mint returns Ok(())
mint_end ==
    /\ pc = "watch"
    /\ Return(ResOk)
    /\ UNCHANGED <<game_state, menu_state, pet_owned, calls, args, submitted,
                   seen, transfer_event, pool>>
    /\ UNCHANGED ledger

\* `match result` of the MintPet arm
MintPetResult ==
    /\ pc = "returned"
    /\ IF result = ResOk
       THEN /\ pet_owned' = "Enable"
            /\ game_state' = "Game"
            /\ menu_state' = "Disabled"
       ELSE /\ menu_state' = "Main"
            /\ UNCHANGED <<pet_owned, game_state>>
    /\ pc' = "menu"
    /\ UNCHANGED <<calls, args, submitted, seen, transfer_event, result, pool>>
    /\ UNCHANGED ledger

\* the node dispatches the oldest extrinsic of the pool: Alice's mint
Dispatch ==
    /\ pool # <<>>
    /\ mint(Signed(Alice), Head(pool).name, Head(pool).species, Head(pool).id)
    /\ Len(events') <= MaxEvents
    /\ pool' = Tail(pool)
    /\ UNCHANGED <<game_state, menu_state, pet_owned, pc, calls, args, submitted,
                   seen, transfer_event, result>>

\* the client alone: the ledger stays as constructed
Menu == EnterMenu \/ NewGame \/ ContinueGame \/ Transaction \/ BackToMainMenu
Click == \E n \in Names : MintPet(n)
Connect == \E ok \in BOOLEAN : mint_connect(ok)
Submit == \E ok \in BOOLEAN : mint_submit(ok)
Watch == \E item \in StatusItems : mint_next(item)

NextWatcher ==
    \/ Menu \/ Click \/ Connect \/ Submit
    \/ Watch \/ mint_fetch_events \/ mint_end \/ MintPetResult

SpecWatcher == Init /\ [][NextWatcher]_vars

\* the client, the node dispatching what the client submitted, and the clock
NextClient == NextWatcher \/ Dispatch \/ NextBlock

SpecClient == Init /\ [][NextClient]_vars

\* the state of the client
ClientTypeOK ==
    /\ game_state \in {"Splash", "Menu", "Game"}
    /\ menu_state \in {"Main", "NewGame", "Transaction", "Disabled"}
    /\ pet_owned \in {"Disable", "Enable"}
    /\ pc \in {"menu", "connect", "submit", "watch", "fetch_events", "returned"}
    /\ calls \in 0 .. MaxCalls
    /\ Len(args) <= 1
    /\ Len(seen) <= MaxStatuses
    /\ \A i \in 1 .. Len(seen) : seen[i] \in StatusItems
    /\ Len(transfer_event) <= 1
    /\ result \in {<<>>, ResOk}
          \cup {ResErr(w) : w \in {"connect", "submit", "status", "fetch_events", "find_first"}}


TypeOK ==
    /\ DOMAIN PetsInfo \subseteq Accounts
    /\ \A a \in DOMAIN PetsInfo : PetsInfo[a] \in PetIds \X PetInfo
    /\ DOMAIN LastFeedTime \subseteq PetIds
    /\ \A i \in DOMAIN LastFeedTime : LastFeedTime[i] \in Heights
    /\ DOMAIN LastSleepTime \subseteq PetIds
    /\ \A i \in DOMAIN LastSleepTime : LastSleepTime[i] \in Heights
    /\ Len(events) <= MaxFrameEvents
    /\ block_number \in Heights

\* ---------------------------------------------------------------- properties
\* the id and the info an account holds
idOf(a)   == PetsInfo[a][1]
infoOf(a) == PetsInfo[a][2]

\* the ledger besides the index: both timestamp maps and the event log
UnchangedStore == UNCHANGED <<PetsInfo, LastFeedTime, LastSleepTime, events>>

\* C1: every account holds at most one pet record (each key of the ownership
\* index maps to exactly one (id, info) pair), and no step overwrites a record
\* an account already holds: an account that holds a record before and after
\* a step holds the same record, so Mint and Transfer write to empty keys only.
C1_OneRecordNeverOverwritten ==
    /\ [](/\ DOMAIN PetsInfo \subseteq Accounts
          /\ \A a \in DOMAIN PetsInfo : PetsInfo[a] \in PetIds \X PetInfo)
    /\ [][\A a \in DOMAIN PetsInfo \cap DOMAIN PetsInfo' :
             PetsInfo'[a] = PetsInfo[a]]_vars

\* two accounts hold records and a transfer has just written a third key
C1_Witness ==
    /\ lastCall.call = "transfer"
    /\ lastCall.result = Ok
    /\ Cardinality(DOMAIN PetsInfo) = 2
    /\ \E a, b \in DOMAIN PetsInfo : a # b /\ PetsInfo[a] # PetsInfo[b]

\* C2: a mint signed by an account that already owns a pet fails with
\* AccountAlreadyHasPet for every name, species and id, and leaves the
\* ownership index, both timestamp maps and the event log unchanged.
C2_MintByOwnerFails ==
    [][\A a \in Accounts, n \in Names, sp \in Species, id \in PetIds :
          (mint(Signed(a), n, sp, id) /\ contains_key(PetsInfo, a))
              => /\ lastCall' = Call("mint", Signed(a), <<>>, AccountAlreadyHasPet)
                 /\ UnchangedStore]_vars

\* an owner whose pet was fed has just been refused a second mint
C2_Witness ==
    \E a \in DOMAIN PetsInfo :
        /\ lastCall = Call("mint", Signed(a), <<>>, AccountAlreadyHasPet)
        /\ idOf(a) \in DOMAIN LastFeedTime
        /\ Len(events) = 2

\* C3: a signed mint succeeds exactly when the sender owns no record; then the
\* sender's entry is (id, {name, species}), every other entry is as before,
\* and the one event appended is PetMinted(sender, id).
C3_MintEffect ==
    [][\A a \in Accounts, n \in Names, sp \in Species, id \in PetIds :
          mint(Signed(a), n, sp, id)
              => /\ lastCall'.call = "mint"
                 /\ lastCall'.origin = Signed(a)
                 /\ (lastCall'.result = Ok) <=> ~ contains_key(PetsInfo, a)
                 /\ lastCall'.result = Ok
                      => /\ DOMAIN PetsInfo' = DOMAIN PetsInfo \cup {a}
                         /\ PetsInfo'[a] = <<id, [name |-> n, species |-> sp]>>
                         /\ \A b \in DOMAIN PetsInfo : PetsInfo'[b] = PetsInfo[b]
                         /\ events' = Append(events, PetMinted(a, id))]_vars

\* a mint with a non-default name and id has succeeded beside another owner
C3_Witness ==
    \E a, b \in DOMAIN PetsInfo :
        /\ a # b
        /\ lastCall = Call("mint", Signed(a), <<>>, Ok)
        /\ PetsInfo[a] = <<1, [name |-> <<97>>, species |-> "Turtle"]>>
        /\ events[Len(events)] = PetMinted(a, 1)

\* C4: a transfer signed by an owner to a receiver that owns nothing succeeds:
\* the receiver then holds the sender's (id, info) pair, the sender holds
\* nothing, every other entry is as before and the one event appended is
\* PetTransfered(sender, receiver, id); the record is never held by both or by
\* neither of the two accounts after the step.
C4_TransferEffect ==
    [][\A s \in Accounts, r \in Accounts :
          (/\ transfer(Signed(s), r)
           /\ contains_key(PetsInfo, s)
           /\ ~ contains_key(PetsInfo, r))
              => /\ lastCall' = Call("transfer", Signed(s), <<r>>, Ok)
                 /\ DOMAIN PetsInfo' = (DOMAIN PetsInfo \cup {r}) \ {s}
                 /\ PetsInfo'[r] = PetsInfo[s]
                 /\ \A b \in DOMAIN PetsInfo \ {s} : PetsInfo'[b] = PetsInfo[b]
                 /\ events' = Append(events, PetTransfered(s, r, idOf(s)))]_vars

\* a pet with a non-default name has moved to the receiver while a third
\* account keeps a different record
C4_Witness ==
    \E s, r, b \in Accounts :
        /\ lastCall = Call("transfer", Signed(s), <<r>>, Ok)
        /\ DOMAIN PetsInfo = {r, b}
        /\ r # b /\ s # r /\ s # b
        /\ PetsInfo[r] = <<1, [name |-> <<97>>, species |-> "Turtle"]>>
        /\ PetsInfo[b] # PetsInfo[r]
        /\ events[Len(events)] = PetTransfered(s, r, 1)

\* C5: a transfer signed by an owner to a receiver that already owns a pet
\* fails with AccountAlreadyHasPet and leaves the ownership index (the
\* sender's and the receiver's records), both timestamp maps and the event
\* log unchanged.
C5_TransferToOwnerFails ==
    [][\A s \in Accounts, r \in Accounts :
          (/\ transfer(Signed(s), r)
           /\ contains_key(PetsInfo, s)
           /\ contains_key(PetsInfo, r))
              => /\ lastCall' = Call("transfer", Signed(s), <<r>>, AccountAlreadyHasPet)
                 /\ UnchangedStore]_vars

\* a transfer between two different owners of different records was refused
C5_Witness ==
    \E s, r \in DOMAIN PetsInfo :
        /\ s # r
        /\ lastCall = Call("transfer", Signed(s), <<r>>, AccountAlreadyHasPet)
        /\ PetsInfo[s] # PetsInfo[r]

\* C6: a transfer signed by an account that owns no record fails with
\* AccountHasNoPet and changes nothing, also when the receiver already owns a
\* pet: the sender check comes first.
C6_TransferByNonOwnerFails ==
    [][\A s \in Accounts, r \in Accounts :
          (transfer(Signed(s), r) /\ ~ contains_key(PetsInfo, s))
              => /\ lastCall' = Call("transfer", Signed(s), <<r>>, AccountHasNoPet)
                 /\ UnchangedStore]_vars

\* a sender without a pet was refused a transfer to an account that owns one
C6_Witness ==
    \E s \in Accounts, r \in DOMAIN PetsInfo :
        /\ s \notin DOMAIN PetsInfo
        /\ lastCall = Call("transfer", Signed(s), <<r>>, AccountHasNoPet)

\* C7: a feed or a sleep signed by an account that owns no pet fails with
\* AccountHasNoPet; no lastFeedTime or lastSleepTime entry is written or
\* changed for any pet id and no event is deposited.
C7_FeedSleepByNonOwnerFail ==
    [][\A s \in Accounts :
          /\ (feed(Signed(s)) /\ ~ contains_key(PetsInfo, s))
                => /\ lastCall' = Call("feed", Signed(s), <<>>, AccountHasNoPet)
                   /\ UnchangedStore
          /\ (sleep(Signed(s)) /\ ~ contains_key(PetsInfo, s))
                => /\ lastCall' = Call("sleep", Signed(s), <<>>, AccountHasNoPet)
                   /\ UnchangedStore]_vars

\* an account without a pet was refused a feed while another account's pet
\* has a feed time and a sleep time
C7_Witness ==
    \E s \in Accounts :
        /\ s \notin DOMAIN PetsInfo
        /\ lastCall = Call("feed", Signed(s), <<>>, AccountHasNoPet)
        /\ DOMAIN LastFeedTime # {}
        /\ DOMAIN LastSleepTime # {}

\* pet id has a PetFeeded (PetSleeped) event in the log
WasFed(id)   == \E i \in 1 .. Len(events) : events[i][1] = "PetFeeded" /\ events[i][3] = id
WasSlept(id) == \E i \in 1 .. Len(events) : events[i][1] = "PetSleeped" /\ events[i][3] = id

\* C8: a feed signed by the owner of pet id at height h succeeds, sets
\* lastFeedTime[id] to h whatever value it had, and deposits
\* PetFeeded(sender, id): a feed at a later height replaces the earlier time.
C8_FeedSetsHeight ==
    [][\A s \in Accounts, id \in PetIds :
          (/\ feed(Signed(s))
           /\ contains_key(PetsInfo, s)
           /\ id = idOf(s))
              => /\ lastCall' = Call("feed", Signed(s), <<>>, Ok)
                 /\ feedTimeOf(id)' = block_number
                 /\ events' = Append(events, PetFeeded(s, id))]_vars

\* the same pet was fed twice and carries the later height
C8_Witness ==
    \E s \in DOMAIN PetsInfo :
        /\ lastCall = Call("feed", Signed(s), <<>>, Ok)
        /\ events = <<PetMinted(s, idOf(s)), PetFeeded(s, idOf(s)), PetFeeded(s, idOf(s))>>
        /\ block_number = MaxHeight
        /\ block_number > 0
        /\ feedTimeOf(idOf(s)) = block_number

\* C9: sleepTimeOf(id) is absent as long as no sleep for that id has
\* succeeded; a sleep signed by the owner of pet id at height h succeeds,
\* makes sleepTimeOf(id) present and equal to h (h = 0 included) and deposits
\* PetSleeped(sender, id).
C9_SleepPresence ==
    /\ [](\A id \in PetIds : ~ WasSlept(id) => sleepTimeOf(id) = <<>>)
    /\ [][\A s \in Accounts, id \in PetIds :
             (/\ sleep(Signed(s))
              /\ contains_key(PetsInfo, s)
              /\ id = idOf(s))
                 => /\ lastCall' = Call("sleep", Signed(s), <<>>, Ok)
                    /\ sleepTimeOf(id)' = <<block_number>>
                    /\ events' = Append(events, PetSleeped(s, id))]_vars

\* a pet has slept at height 0 while another minted pet id has no sleep time
C9_Witness ==
    \E s, b \in DOMAIN PetsInfo :
        /\ lastCall = Call("sleep", Signed(s), <<>>, Ok)
        /\ block_number = 0
        /\ sleepTimeOf(idOf(s)) = <<0>>
        /\ idOf(b) # idOf(s)
        /\ sleepTimeOf(idOf(b)) = <<>>

\* C10: feedTimeOf(id) is a height for every pet id, and it is the sentinel 0
\* for every pet id that no feed has succeeded for.
C10_FeedTimeDefault ==
    \A id \in PetIds :
        /\ feedTimeOf(id) \in Heights
        /\ ~ WasFed(id) => feedTimeOf(id) = 0

\* at height 1 one pet has been fed at that height, another minted pet and
\* one that slept at that height have not been fed and read 0
C10_Witness ==
    \E s, b \in DOMAIN PetsInfo :
        /\ block_number = 1
        /\ idOf(s) # idOf(b)
        /\ WasFed(idOf(s)) /\ feedTimeOf(idOf(s)) = 1
        /\ ~ WasFed(idOf(b)) /\ feedTimeOf(idOf(b)) = 0
        /\ idOf(b) \notin DOMAIN LastFeedTime

\* a step that dispatches an extrinsic: the clock stands still
IsDispatch == block_number' = block_number

\* C11: dispatch is atomic. A dispatch that returns Ok applies its writes
\* (mint: the sender's key appears; transfer: the receiver's key appears and
\* the sender's disappears; feed, sleep: the pet's timestamp is the height)
\* and appends exactly one event; a dispatch that returns an error changes
\* no map and appends no event. The log starts empty, so its length is the
\* number of dispatches that returned Ok.
C11_AtomicDispatch ==
    /\ events = <<>>
    /\ [][IsDispatch =>
            /\ lastCall'.result # Ok => UnchangedStore
            /\ lastCall'.result = Ok =>
                  /\ Len(events') = Len(events) + 1
                  /\ SubSeq(events', 1, Len(events)) = events
                  /\ lastCall'.call = "mint" =>
                        /\ ~ contains_key(PetsInfo, lastCall'.origin[2])
                        /\ contains_key(PetsInfo', lastCall'.origin[2])
                  /\ lastCall'.call = "transfer" =>
                        /\ contains_key(PetsInfo', lastCall'.to[1])
                        /\ ~ contains_key(PetsInfo', lastCall'.origin[2])
                  /\ lastCall'.call = "feed" =>
                        LastFeedTime'[PetsInfo[lastCall'.origin[2]][1]] = block_number
                  /\ lastCall'.call = "sleep" =>
                        LastSleepTime'[PetsInfo[lastCall'.origin[2]][1]] = block_number]_vars

\* three dispatches returned Ok, the last of them a sleep, and then a
\* transfer was refused
C11_Witness ==
    /\ Len(events) = 3
    /\ events[3][1] = "PetSleeped"
    /\ lastCall.call = "transfer"
    /\ lastCall.result = AccountAlreadyHasPet

\* the log of mint(a, id), transfer(a -> b), transfer(b -> a) and nothing else
RoundTripLog(a, b, id) ==
    <<PetMinted(a, id), PetTransfered(a, b, id), PetTransfered(b, a, id)>>

\* the log is RoundTripLog(a, b, id) for the minter a and some other account b
IsRoundTripLog ==
    /\ Len(events) = 3
    /\ events[1][1] = "PetMinted"
    /\ events[2][1] = "PetTransfered"
    /\ events[2][3] # events[1][2]
    /\ events = RoundTripLog(events[1][2], events[2][3], events[1][3])

\* C12: round trip. Once a holds a freshly minted record rec and b holds
\* nothing, transfer(a -> b) and then transfer(b -> a) both return Ok, and in
\* the state they lead to a holds rec again, b holds nothing and the log has
\* gained exactly the two PetTransfered events.
C12_RoundTrip ==
    /\ [][\A a \in Accounts, b \in Accounts, id \in PetIds :
             /\ (transfer(Signed(a), b) /\ a # b /\ events = <<PetMinted(a, id)>>)
                   => /\ lastCall'.result = Ok
                      /\ events' = <<PetMinted(a, id), PetTransfered(a, b, id)>>
             /\ (/\ transfer(Signed(b), a)
                  /\ a # b
                  /\ events = <<PetMinted(a, id), PetTransfered(a, b, id)>>)
                   => /\ lastCall'.result = Ok
                      /\ events' = RoundTripLog(a, b, id)]_vars
    /\ \A rec \in PetIds \X PetInfo :
          []((/\ Len(events) = 1
              /\ events[1][1] = "PetMinted"
              /\ get(PetsInfo, events[1][2]) = <<rec>>)
                => [](IsRoundTripLog
                        => /\ get(PetsInfo, events[1][2]) = <<rec>>
                           /\ get(PetsInfo, events[2][3]) = <<>>))

\* a pet with a non-default id and name has made the round trip
C12_Witness ==
    \E a \in Accounts, b \in Accounts :
        /\ a # b
        /\ IsRoundTripLog
        /\ events = RoundTripLog(a, b, 1)
        /\ lastCall = Call("transfer", Signed(b), <<a>>, Ok)
        /\ get(PetsInfo, a) = << <<1, [name |-> <<97>>, species |-> "Turtle"]>> >>
        /\ DOMAIN PetsInfo = {a}

\* C13: two distinct accounts that own no pet can both mint with the same id.
\* A mint with id by an account b that owns no pet returns Ok whatever the
\* other accounts hold; when another account a already holds a record with
\* that id, both a and b hold a record carrying id afterwards.
C13_SameIdTwoAccounts ==
    [][\A b \in Accounts, n \in Names, sp \in Species, id \in PetIds :
          (mint(Signed(b), n, sp, id) /\ ~contains_key(PetsInfo, b))
             => /\ lastCall'.result = Ok
                /\ contains_key(PetsInfo', b)
                /\ PetsInfo'[b][1] = id
                /\ \A a \in Accounts \ {b} :
                      (contains_key(PetsInfo, a) /\ idOf(a) = id)
                         => /\ contains_key(PetsInfo', a)
                            /\ PetsInfo'[a][1] = id]_vars

\* two accounts minted one after the other with id 1 and both hold it
C13_Witness ==
    \E a \in Accounts, b \in Accounts :
        /\ a # b
        /\ events = <<PetMinted(a, 1), PetMinted(b, 1)>>
        /\ lastCall = Call("mint", Signed(b), <<>>, Ok)
        /\ contains_key(PetsInfo, a) /\ idOf(a) = 1
        /\ contains_key(PetsInfo, b) /\ idOf(b) = 1

\* C14: the id of a pet is unique and one pet is owned by only one user: no
\* pet id appears in the records of two different accounts.
C14_UniqueIds ==
    \A a \in DOMAIN PetsInfo, b \in DOMAIN PetsInfo :
        a # b => idOf(a) # idOf(b)

\* the step is the successful dispatch of the named call
Succeeded(name) ==
    /\ IsDispatch
    /\ lastCall'.call = name
    /\ lastCall'.result = Ok

\* C15: records are created only by a successful mint and are never deleted
\* or copied. The number of records grows by one in a successful mint and is
\* unchanged in every other step (transfer, feed, sleep, failed calls, a new
\* block); an account's entry disappears only in the step in which that
\* account successfully transfers its pet away, and an entry appears only for
\* the sender of a successful mint or for the receiver of a successful
\* transfer, whose sender loses its entry in the same step.
C15_RecordCount ==
    [][/\ Succeeded("mint")
            => Cardinality(DOMAIN PetsInfo') = Cardinality(DOMAIN PetsInfo) + 1
       /\ ~Succeeded("mint")
            => Cardinality(DOMAIN PetsInfo') = Cardinality(DOMAIN PetsInfo)
       /\ \A a \in DOMAIN PetsInfo \ DOMAIN PetsInfo' :
            /\ Succeeded("transfer")
            /\ lastCall'.origin = Signed(a)
       /\ \A a \in DOMAIN PetsInfo' \ DOMAIN PetsInfo :
            \/ Succeeded("mint") /\ lastCall'.origin = Signed(a)
            \/ /\ Succeeded("transfer")
               /\ lastCall'.to = <<a>>
               /\ lastCall'.origin[2] \in DOMAIN PetsInfo \ DOMAIN PetsInfo'
               /\ PetsInfo'[a] = PetsInfo[lastCall'.origin[2]]]_vars

\* two records exist and one of them has just changed hands
C15_Witness ==
    \E a \in Accounts, b \in Accounts, c \in Accounts :
        /\ events = <<PetMinted(a, 0), PetMinted(b, 1), PetTransfered(a, c, 0)>>
        /\ lastCall = Call("transfer", Signed(a), <<c>>, Ok)
        /\ DOMAIN PetsInfo = {b, c}
        /\ Cardinality(DOMAIN PetsInfo) = 2

\* C16: a pet record is immutable once minted. In every step each record of
\* the new state is the same tuple (id, name, species) that was stored under
\* the same account before, or was just minted by that account, or is the
\* unchanged tuple of the sender of a successful transfer to that account;
\* and each record of the old state is still stored, under its account or
\* under the receiver of that account's successful transfer.
C16_RecordImmutable ==
    [][/\ \A a \in DOMAIN PetsInfo' :
            \/ a \in DOMAIN PetsInfo /\ PetsInfo'[a] = PetsInfo[a]
            \/ /\ a \notin DOMAIN PetsInfo
               /\ Succeeded("mint")
               /\ lastCall'.origin = Signed(a)
            \/ /\ a \notin DOMAIN PetsInfo
               /\ Succeeded("transfer")
               /\ lastCall'.to = <<a>>
               /\ contains_key(PetsInfo, lastCall'.origin[2])
               /\ PetsInfo'[a] = PetsInfo[lastCall'.origin[2]]
       /\ \A a \in DOMAIN PetsInfo :
            \/ a \in DOMAIN PetsInfo' /\ PetsInfo'[a] = PetsInfo[a]
            \/ /\ Succeeded("transfer")
               /\ lastCall'.origin = Signed(a)
               /\ contains_key(PetsInfo', lastCall'.to[1])
               /\ PetsInfo'[lastCall'.to[1]] = PetsInfo[a]]_vars

\* a pet minted with id 1 and a non-empty name was fed and then moved to
\* another account, which holds the same id, name and species
C16_Witness ==
    \E a \in Accounts, b \in Accounts :
        /\ events = <<PetMinted(a, 1), PetFeeded(a, 1), PetTransfered(a, b, 1)>>
        /\ lastCall = Call("transfer", Signed(a), <<b>>, Ok)
        /\ DOMAIN PetsInfo = {b}
        /\ PetsInfo[b] = <<1, [name |-> <<97>>, species |-> "Turtle"]>>

\* C17: activity timestamps are written only by feed and sleep and survive
\* ownership changes. A mint or transfer step, successful or failed, leaves
\* LastFeedTime and LastSleepTime unchanged for every pet id; LastFeedTime
\* changes only in a successful feed and LastSleepTime only in a successful
\* sleep; after a successful transfer the receiver holds the sender's pet id
\* and that id has the feed and sleep times it had before the move.
C17_TimestampsSurvive ==
    [][/\ (IsDispatch /\ lastCall'.call \in {"mint", "transfer"})
            => UNCHANGED <<LastFeedTime, LastSleepTime>>
       /\ LastFeedTime' # LastFeedTime => Succeeded("feed")
       /\ LastSleepTime' # LastSleepTime => Succeeded("sleep")
       /\ Succeeded("transfer")
            => \E id \in PetIds :
                  /\ PetsInfo[lastCall'.origin[2]][1] = id
                  /\ PetsInfo'[lastCall'.to[1]][1] = id
                  /\ get(LastFeedTime', id) = get(LastFeedTime, id)
                  /\ get(LastSleepTime', id) = get(LastSleepTime, id)]_vars

\* a pet that slept at height 1 has been transferred and its new owner's pet
\* still has sleep time 1
C17_Witness ==
    \E a \in Accounts, b \in Accounts :
        /\ events = <<PetMinted(a, 0), PetSleeped(a, 0), PetTransfered(a, b, 0)>>
        /\ lastCall = Call("transfer", Signed(a), <<b>>, Ok)
        /\ contains_key(PetsInfo, b)
        /\ sleepTimeOf(idOf(b)) = <<1>>
        /\ feedTimeOf(idOf(b)) = 0

\* the last dispatched call was this one and it failed
JustFailed(name, origin, to) ==
    /\ lastCall.call = name
    /\ lastCall.origin = origin
    /\ lastCall.to = to
    /\ lastCall.result # Ok

\* C18: the validation path is idempotent. Re-running a call that just failed
\* (same call, origin and receiver, any mint arguments, no other call in
\* between; blocks may pass) fails with the same error and leaves PetsInfo,
\* both timestamp maps and the event log unchanged.
C18_FailedRerun ==
    [][\A o \in Origins :
         /\ \A n \in Names, sp \in Species, id \in PetIds :
               (JustFailed("mint", o, <<>>) /\ mint(o, n, sp, id))
                  => lastCall' = lastCall /\ UnchangedStore
         /\ \A r \in Accounts :
               (JustFailed("transfer", o, <<r>>) /\ transfer(o, r))
                  => lastCall' = lastCall /\ UnchangedStore
         /\ (JustFailed("feed", o, <<>>) /\ feed(o))
               => lastCall' = lastCall /\ UnchangedStore
         /\ (JustFailed("sleep", o, <<>>) /\ sleep(o))
               => lastCall' = lastCall /\ UnchangedStore]_vars

\* an account that gave its pet away has just been refused a feed at height
\* 1, with the store and the log as the transfer left them
C18_Witness ==
    \E a \in Accounts, b \in Accounts :
        /\ lastCall = Call("feed", Signed(a), <<>>, AccountHasNoPet)
        /\ events = <<PetMinted(a, 1), PetFeeded(a, 1), PetTransfered(a, b, 1)>>
        /\ DOMAIN PetsInfo = {b}
        /\ LastFeedTime = (1 :> 0)
        /\ block_number = 1

\* C19: double application of feed or sleep is harmless for the store. When
\* an account's feed has just succeeded and the same feed is applied again,
\* it succeeds, PetsInfo and LastSleepTime are unchanged and LastFeedTime
\* differs at most at that pet id, which now maps to the current height: at
\* the height of the first feed the map is identical, at a later height only
\* that id's timestamp is replaced by the later height. The same for sleep
\* with LastSleepTime and LastFeedTime exchanged.
C19_DoubleApplication ==
    [][\A s \in Accounts :
         /\ (lastCall = Call("feed", Signed(s), <<>>, Ok) /\ feed(Signed(s)))
               => /\ lastCall'.result = Ok
                  /\ UNCHANGED <<PetsInfo, LastSleepTime>>
                  /\ contains_key(LastFeedTime, idOf(s))
                  /\ LastFeedTime[idOf(s)] <= block_number
                  /\ LastFeedTime' = [LastFeedTime EXCEPT ![idOf(s)] = block_number]
                  /\ LastFeedTime[idOf(s)] = block_number
                        => LastFeedTime' = LastFeedTime
         /\ (lastCall = Call("sleep", Signed(s), <<>>, Ok) /\ sleep(Signed(s)))
               => /\ lastCall'.result = Ok
                  /\ UNCHANGED <<PetsInfo, LastFeedTime>>
                  /\ contains_key(LastSleepTime, idOf(s))
                  /\ LastSleepTime[idOf(s)] <= block_number
                  /\ LastSleepTime' = [LastSleepTime EXCEPT ![idOf(s)] = block_number]
                  /\ LastSleepTime[idOf(s)] = block_number
                        => LastSleepTime' = LastSleepTime]_vars

\* the same sleep was applied twice in a row, the second time at height 1
C19_Witness ==
    \E a \in Accounts :
        /\ events = <<PetMinted(a, 1), PetSleeped(a, 1), PetSleeped(a, 1)>>
        /\ lastCall = Call("sleep", Signed(a), <<>>, Ok)
        /\ block_number = 1
        /\ LastSleepTime = (1 :> 1)
        /\ LastFeedTime = <<>>
        /\ DOMAIN PetsInfo = {a}

\* C20: the event log is append-only and ordered by dispatch order. Every
\* step keeps the events emitted so far as an unchanged prefix and appends at
\* most one event; the log grows exactly in the steps that apply a call to
\* the store (a successful dispatch), and the event appended is the last
\* element of the log and names the account, the call and the pet id of the
\* call applied in that step. The events of any account therefore stand in
\* the log in the order in which its calls were applied.
C20_AppendOnlyLog ==
    [][/\ Len(events') \in {Len(events), Len(events) + 1}
       /\ SubSeq(events', 1, Len(events)) = events
       /\ events' # events <=> (IsDispatch /\ lastCall'.result = Ok)
       /\ <<PetsInfo, LastFeedTime, LastSleepTime>>'
             # <<PetsInfo, LastFeedTime, LastSleepTime>> => events' # events
       /\ events' # events
            => LET e == events'[Len(events')]
                   s == lastCall'.origin[2] IN
               /\ lastCall'.call = "mint"
                     => e = PetMinted(s, PetsInfo'[s][1])
               /\ lastCall'.call = "transfer"
                     => e = PetTransfered(s, lastCall'.to[1], PetsInfo[s][1])
               /\ lastCall'.call = "feed" => e = PetFeeded(s, PetsInfo[s][1])
               /\ lastCall'.call = "sleep" => e = PetSleeped(s, PetsInfo[s][1])
               /\ lastCall'.call \in {"mint", "transfer", "feed", "sleep"}]_vars

\* the calls of two accounts were applied interleaved and the log shows each
\* account's events in the order of its calls
C20_Witness ==
    \E a \in Accounts, b \in Accounts :
        /\ a # b
        /\ events = <<PetMinted(a, 0), PetMinted(b, 1), PetFeeded(a, 0)>>
        /\ lastCall = Call("feed", Signed(a), <<>>, Ok)
        /\ DOMAIN PetsInfo = {a, b}
        /\ LastFeedTime = (0 :> block_number)

\* C29: a transfer whose receiver is the sender itself, issued by an account
\* that owns a pet, fails with AccountAlreadyHasPet, changes nothing in the
\* store or the log, and leaves the sender holding the same record.
C29_SelfTransferFails ==
    [][\A a \in Accounts :
          (transfer(Signed(a), a) /\ contains_key(PetsInfo, a))
             => /\ lastCall' = Call("transfer", Signed(a), <<a>>, AccountAlreadyHasPet)
                /\ UnchangedStore
                /\ contains_key(PetsInfo', a)
                /\ PetsInfo'[a] = PetsInfo[a]
                /\ DOMAIN PetsInfo' = DOMAIN PetsInfo]_vars

\* the only owner has just been refused a transfer to itself and still holds
\* its pet
C29_Witness ==
    \E a \in Accounts :
        /\ lastCall = Call("transfer", Signed(a), <<a>>, AccountAlreadyHasPet)
        /\ DOMAIN PetsInfo = {a}
        /\ idOf(a) = 1
        /\ events = <<PetMinted(a, 1)>>

\* C30: with a non-decreasing clock, every stored LastFeedTime[id] and every
\* present LastSleepTime[id] is at most the current height, and in no step
\* does the clock, a stored feed time or a stored sleep time decrease or a
\* stored timestamp disappear.
C30_TimestampsBounded ==
    /\ [](/\ \A id \in DOMAIN LastFeedTime : LastFeedTime[id] <= block_number
          /\ \A id \in DOMAIN LastSleepTime : LastSleepTime[id] <= block_number)
    /\ [][/\ block_number' >= block_number
          /\ \A id \in DOMAIN LastFeedTime :
                /\ contains_key(LastFeedTime', id)
                /\ LastFeedTime'[id] >= LastFeedTime[id]
          /\ \A id \in DOMAIN LastSleepTime :
                /\ contains_key(LastSleepTime', id)
                /\ LastSleepTime'[id] >= LastSleepTime[id]]_vars

\* a pet fed at height 0 and put to sleep at height 1
C30_Witness ==
    \E a \in Accounts :
        /\ events = <<PetMinted(a, 0), PetFeeded(a, 0), PetSleeped(a, 0)>>
        /\ block_number = 1
        /\ LastFeedTime = (0 :> 0)
        /\ LastSleepTime = (0 :> 1)

\* ---------------------------------------------------------------- watcher
\* the statuses that end a submission, and the ones that do not
Terminal(item) == item[1] \in {"Finalized", "Dropped", "Invalid", "Error"}
Pending(item)  == item \in {TxReady, TxInBlock}

\* a Finalized item whose block can be read and holds a PetMinted event
FinalizedWithEvent(item) ==
    /\ item[1] = "Finalized"
    /\ item[2] = "ok"
    /\ find_first(item[3], "PetMinted") # <<>>

\* a Finalized item whose block can be read and holds no PetMinted event
FinalizedNoEvent(item) ==
    /\ item[1] = "Finalized"
    /\ item[2] = "ok"
    /\ find_first(item[3], "PetMinted") = <<>>

\* the mint call has returned and its locals are those of that call
Resolved == pc \in {"returned", "menu"} /\ calls > 0

\* the stream was Ready and InBlock items, any number of them in any order,
\* and then a Finalized whose block holds a PetMinted event
PendingThenFinalized ==
    /\ seen # <<>>
    /\ \A i \in 1 .. Len(seen) - 1 : Pending(seen[i])
    /\ FinalizedWithEvent(seen[Len(seen)])

\* C21: for every status sequence made of any number of Ready and InBlock
\* items followed by a Finalized whose block contains a PetMinted event, the
\* mint call that has returned after it returned Ok(()), having found that
\* event in the block, and the menu that has matched the result has set
\* PetOwned to Enable.
C21_FinalizedSuccess ==
    (Resolved /\ PendingThenFinalized)
       => /\ result = ResOk
          /\ transfer_event = find_first(seen[Len(seen)][3], "PetMinted")
          /\ transfer_event # <<>>
          /\ pc = "menu" => pet_owned = "Enable"

\* [Ready, InBlock(b1), Finalized(b1)] with Alice's PetMinted in b1, resolved
C21_Witness ==
    /\ pc = "returned"
    /\ seen = <<TxReady, TxInBlock, TxFinalized("ok", <<PetMinted(Alice, 1)>>)>>
    /\ result = ResOk
    /\ transfer_event = <<PetMinted(Alice, 1)>>

\* C22: if the status stream ends before any terminal status (Finalized,
\* Dropped, Invalid, Error) was observed, the mint call resolves to an
\* outcome that is neither success (Ok) nor failure (Err).
C22_ClosureIsIndeterminate ==
    (/\ Resolved
     /\ submitted # <<>>
     /\ \A i \in 1 .. Len(seen) : ~Terminal(seen[i]))
       => /\ result # ResOk
          /\ result[1] # "Err"

\* C23: when the stream has delivered Dropped, Invalid or Error, the mint
\* call that has resolved returned a failure: the caller is never handed Ok.
C23_FailureStatusFails ==
    (Resolved /\ \E i \in 1 .. Len(seen) : seen[i] \in {TxDropped, TxInvalid, TxError})
       => /\ result # ResOk
          /\ result[1] = "Err"

\* C24: when Finalized is observed for a block without a PetMinted event and
\* the call resolves, its result is a third outcome, neither the Ok of a
\* success with the event nor an Err.
C24_NoEventIsAnomaly ==
    (/\ Resolved
     /\ seen # <<>>
     /\ FinalizedNoEvent(seen[Len(seen)]))
       => /\ result # ResOk
          /\ result[1] # "Err"

\* C25: inclusion is not finality: the mint call never returns Ok when no
\* Finalized status was observed.
C25_SuccessNeedsFinalized ==
    (Resolved /\ result = ResOk)
       => \E i \in 1 .. Len(seen) : seen[i][1] = "Finalized"

\* C26: no retries. One mint call hands the extrinsic to the transport at
\* most once, and exactly once before it takes any status; the extrinsic is
\* handed over only by the submit step, whatever statuses follow, and the
\* statuses are taken one by one, each appended once to what was taken.
C26_SubmitOnce ==
    /\ [](/\ Len(submitted) <= 1
          /\ (pc = "watch" \/ seen # <<>>) => Len(submitted) = 1)
    /\ [][/\ submitted' # submitted
               => \/ /\ pc = "submit" /\ pc' = "watch"
                     /\ submitted = <<>>
                     /\ submitted' = <<MintExtrinsic(args[1])>>
                     /\ pool' = Append(pool, MintExtrinsic(args[1]))
                  \/ pc = "menu" /\ pc' = "connect" /\ submitted' = <<>>
          /\ submitted' = submitted => pool' = pool
          /\ seen' # seen
               => \/ /\ pc = "watch"
                     /\ Len(seen') = Len(seen) + 1
                     /\ SubSeq(seen', 1, Len(seen)) = seen
                  \/ pc = "menu" /\ pc' = "connect" /\ seen' = <<>>]_vars

\* a call that was told Dropped, Invalid and Error has returned and has
\* submitted once
C26_Witness ==
    /\ pc = "returned"
    /\ seen = <<TxDropped, TxInvalid, TxError>>
    /\ result = ResErr("status")
    /\ Len(submitted) = 1
    /\ Len(pool) = calls

\* C27: once a terminal status (Finalized, Dropped, Invalid or Error) has
\* been delivered the mint call has resolved: the terminal item is the last
\* one it took and it waits for no further item, being either returned or
\* still reading the events of the Finalized block it was just handed.
C27_ResolvesAtTerminal ==
    \A i \in 1 .. Len(seen) :
        Terminal(seen[i])
           => /\ i = Len(seen)
              /\ pc \in {"returned", "menu", "fetch_events"}

\* the step dispatches the oldest submitted extrinsic
IsSubmittedDispatch == Len(pool') < Len(pool)

\* C28: abandoning the watcher never affects the ledger. A step of the client
\* (a menu click, connect, submit, taking a status, fetching the events of a
\* finalized block, the end of the stream, the match on the result) writes
\* nothing to the ledger; a submitted
\* extrinsic can be dispatched whatever part of the stream the caller has
\* consumed (all of it, some of it, none) and wherever the call stands; and
\* the ledger state its dispatch leads to is fixed by the ledger state before
\* and the extrinsic alone, the client's state being left as it was.
C28_WatcherWritesNothing ==
    /\ [](pool # <<>> => ENABLED Dispatch)
    /\ [][/\ (~IsSubmittedDispatch /\ block_number' = block_number)
               => UNCHANGED ledger
          /\ IsSubmittedDispatch
               => /\ pool' = Tail(pool)
                  /\ UNCHANGED <<game_state, menu_state, pet_owned, pc, calls, args,
                                 submitted, seen, transfer_event, result>>
                  /\ UNCHANGED <<LastFeedTime, LastSleepTime, block_number>>
                  /\ IF contains_key(PetsInfo, Alice)
                     THEN /\ UNCHANGED <<PetsInfo, events>>
                          /\ lastCall' = Call("mint", Signed(Alice), <<>>,
                                              AccountAlreadyHasPet)
                     ELSE /\ PetsInfo' = insert(PetsInfo, Alice,
                                 <<Head(pool).id,
                                   [name |-> Head(pool).name,
                                    species |-> Head(pool).species]>>)
                          /\ events' = Append(events, PetMinted(Alice, Head(pool).id))
                          /\ lastCall' = Call("mint", Signed(Alice), <<>>, Ok)]_vars

\* the call is still watching and has taken only Dropped, while the
\* extrinsic it submitted has been dispatched and Alice holds the pet
C28_Witness ==
    /\ pc = "watch"
    /\ seen = <<TxDropped>>
    /\ pool = <<>>
    /\ calls = 1
    /\ contains_key(PetsInfo, Alice)
    /\ PetsInfo[Alice] = <<1, [name |-> <<97>>, species |-> "Turtle"]>>
    /\ events = <<PetMinted(Alice, 1)>>
    /\ lastCall = Call("mint", Signed(Alice), <<>>, Ok)

\* C31: only the current owner can change a pet's activity timestamps. In
\* every step, for an account a that holds the same pet before and after, the
\* feed time and the sleep time read for a's pet change only if the step is a
\* successful feed or sleep signed by a.
C31_OnlyOwnerChangesTimes ==
    [][\A a \in DOMAIN PetsInfo \cap DOMAIN PetsInfo' :
          (/\ PetsInfo'[a] = PetsInfo[a]
           /\ \/ feedTimeOf(idOf(a))' # feedTimeOf(idOf(a))
              \/ sleepTimeOf(idOf(a))' # sleepTimeOf(idOf(a)))
             => /\ Succeeded("feed") \/ Succeeded("sleep")
                /\ lastCall'.origin = Signed(a)]_vars

\* the step is the `match result` of the MintPet arm
IsMintPetResult == pc = "returned" /\ pc' = "menu"

\* C32: after a MintPet click the menu sets PetOwned to Enable and enters
\* GameState::Game only if the mint call observed a Finalized status whose
\* block contains a PetMinted event; after every other status sequence it
\* leaves PetOwned unchanged and returns to MenuState::Main.
C32_EnableOnlyOnFinalizedEvent ==
    [][IsMintPetResult
          => IF \E i \in 1 .. Len(seen) : FinalizedWithEvent(seen[i])
             THEN TRUE
             ELSE /\ pet_owned' = pet_owned
                  /\ game_state' = game_state
                  /\ menu_state' = "Main"]_vars

\* C33: the client's mint(petid, species, name) submits a mint extrinsic that
\* carries exactly the pet id, the species and the name its caller passed.
C33_SubmitsCallerArguments ==
    \A i \in 1 .. Len(submitted) :
        /\ args # <<>>
        /\ submitted[i].id = args[1].petid
        /\ submitted[i].species = args[1].species
        /\ submitted[i].name = args[1].name

\* one event applied to an ownership map account -> pet id: PetMinted(o, id)
\* gives o the id, PetTransfered(f, t, id) moves it from f to t, the other
\* events change nothing
ApplyEvent(own, e) ==
    IF e[1] = "PetMinted" THEN insert(own, e[2], e[3])
    ELSE IF e[1] = "PetTransfered" THEN remove(insert(own, e[3], e[4]), e[2])
    ELSE own

\* the events of a log applied in order to an ownership map
RECURSIVE Replay(_, _)
Replay(own, log) ==
    IF log = <<>> THEN own
    ELSE Replay(ApplyEvent(own, Head(log)), Tail(log))

\* C34: the event log determines ownership. Replaying the PetMinted and
\* PetTransfered events of the log from the empty store yields exactly the
\* accounts that own a pet and the pet id each one holds.
C34_LogDeterminesOwnership ==
    LET own == Replay(<<>>, events) IN
    /\ DOMAIN own = DOMAIN PetsInfo
    /\ \A a \in DOMAIN PetsInfo : own[a] = idOf(a)

\* a pet was minted and given away, and the giver minted another one
C34_Witness ==
    \E a \in Accounts, b \in Accounts :
        /\ a # b
        /\ events = <<PetMinted(a, 1), PetTransfered(a, b, 1), PetMinted(a, 0)>>
        /\ DOMAIN PetsInfo = {a, b}
        /\ idOf(a) = 0
        /\ idOf(b) = 1
        /\ Replay(<<>>, events) = [x \in {a, b} |-> IF x = a THEN 0 ELSE 1]

\* C35: a successful feed by the owner of pet id changes only LastFeedTime at
\* key id: PetsInfo, LastFeedTime of every other id and every LastSleepTime
\* entry are unchanged. Symmetrically a successful sleep changes only
\* LastSleepTime at key id.
C35_FeedSleepFrame ==
    [][/\ Succeeded("feed")
            => LET id == PetsInfo[lastCall'.origin[2]][1] IN
               /\ UNCHANGED <<PetsInfo, LastSleepTime>>
               /\ DOMAIN LastFeedTime' = DOMAIN LastFeedTime \cup {id}
               /\ \A other \in DOMAIN LastFeedTime' \ {id} :
                     LastFeedTime'[other] = LastFeedTime[other]
       /\ Succeeded("sleep")
            => LET id == PetsInfo[lastCall'.origin[2]][1] IN
               /\ UNCHANGED <<PetsInfo, LastFeedTime>>
               /\ DOMAIN LastSleepTime' = DOMAIN LastSleepTime \cup {id}
               /\ \A other \in DOMAIN LastSleepTime' \ {id} :
                     LastSleepTime'[other] = LastSleepTime[other]]_vars

\* two accounts hold pets 0 and 1; pet 0 was fed and put to sleep at height
\* 0, then pet 1 was fed and put to sleep at height 1, and the entries of pet
\* 0 are still those of height 0
C35_Witness ==
    /\ events = <<PetMinted(1, 0), PetMinted(2, 1), PetFeeded(1, 0),
                  PetSleeped(1, 0), PetFeeded(2, 1), PetSleeped(2, 1)>>
    /\ lastCall = Call("sleep", Signed(2), <<>>, Ok)
    /\ DOMAIN PetsInfo = {1, 2}
    /\ LastFeedTime = (0 :> 0 @@ 1 :> 1)
    /\ LastSleepTime = (0 :> 0 @@ 1 :> 1)
====
